---- MODULE Spec2Model ----
(***************************************************************************)
(* Model of the golf-swing analysis endpoint POST /api/analyze-file        *)
(* (src/src/app/api/analyze-file/route.ts, the handler of lines 174-600):  *)
(* size-based routing, temp file handling, Files API upload and polling,   *)
(* the two-tier Gemini call and the cleanup that runs in the finally.      *)
(*                                                                         *)
(* Every request r has its own copy of the handler's locals; the temp      *)
(* directory (fs) and the provider's staging area (remote) are shared.     *)
(* Each action is one awaited step of the handler; its outcome (a value    *)
(* returned by the provider or the file system, or an exception) is drawn  *)
(* with \E.  trace[r] is the history of the calls the request has issued.  *)
(***************************************************************************)
EXTENDS Integers, Sequences, FiniteSets, TLC

\* ------------------------------------------------------------------ sizes
\* A byte count is kept as [mb, b]: mb whole units of 1024*1024 bytes plus
\* b bytes (0 <= b < MB), so that 2GB and more stay inside TLC's integers.
MB == 1024 * 1024

Size(mb, b) == [mb |-> mb, b |-> b]

\* JSON bodies may carry a fileSize that is no number: every comparison with
\* it is false, as with NaN/undefined in the code.
NaNSize == [mb |-> -1, b |-> -1]

IsNumber(s) == s # NaNSize

SizeLE(x, y) == x.mb < y.mb \/ (x.mb = y.mb /\ x.b <= y.b)

\* x <= y and x > y as the code evaluates them
Le(x, y) == IsNumber(x) /\ SizeLE(x, y)

Gt(x, y) == IsNumber(x) /\ ~SizeLE(x, y)

MAX_FILE_SIZE == Size(2 * 1024, 0)

GEMINI_BASE64_LIMIT == Size(20, 0)

PROCESSING_MAX_ATTEMPTS == 10

PROCESSING_DELAY == 5000

FALLBACK_DELAY == 2000

\* ----------------------------------------------------------------- bounds
\* number of distinct texts a model tier may answer with
NumTexts == 2

Texts == 1..NumTexts

NoText == 0

\* requests the handler may be serving
Reqs == {"r1", "r2"}

\* sizes around the two thresholds, and the sizes of the documented scenarios
Sizes ==
    { Size(10, 0), Size(19, MB - 1), Size(20, 0), Size(20, 1), Size(25, 0),
      Size(2048, 0), Size(2048, 1), Size(2560, 0) }

States == {"PROCESSING", "ACTIVE", "FAILED", "undefined"}

\* ------------------------------------------------------------- temp paths
\* file.name of an upload: every upload carries the same original name
FileName == "swing.mov"

\* crypto.randomUUID() as called by request r: a value no other call returns
RandomUUID(r) == r

\* saveTemporaryFile: path.join(tempDir, `${fileId}_${file.name}`)
TempPathMutant(fileId, name) == <<"", name>>

TempPath(fileId, name) == <<fileId, name>>

\* the empty string POST's tempFilePath starts with
NoPath == <<>>

Paths == {<<id, FileName>> : id \in Reqs \cup {""}}

\* ----------------------------------------------------------------- inputs
\* A request body: multipart form data (kind "form") or JSON (kind "json").
\* bodyOk: the body parses; hasFile: the form has a 'file' field; method,
\* fileSize, base64Data: the fields of a JSON body ("empty" is the empty
\* string, "absent" a missing field).
Body(kind, bodyOk, hasFile, method, fileSize, base64Data) ==
    [kind |-> kind, bodyOk |-> bodyOk, hasFile |-> hasFile, method |-> method,
     fileSize |-> fileSize, base64Data |-> base64Data]

FormBodies ==
    {Body("form", FALSE, FALSE, "", NaNSize, "absent"),
     Body("form", TRUE, FALSE, "", NaNSize, "absent")}
    \cup {Body("form", TRUE, TRUE, "", s, "absent") : s \in Sizes}

JsonBodies ==
    {Body("json", FALSE, FALSE, "", NaNSize, "absent"),
     Body("json", TRUE, FALSE, "other", NaNSize, "absent")}
    \cup {Body("json", TRUE, FALSE, "base64", s, d) :
            s \in Sizes \cup {NaNSize}, d \in {"absent", "empty", "data"}}

Bodies == FormBodies \cup JsonBodies

NoBody == Body("none", FALSE, FALSE, "", NaNSize, "absent")

\* ------------------------------------------------------------ value shapes
\* a file object of the Files API: whether it has a name, its state, and
\* whether it has both a mimeType and a uri
File(name, state, hasUri) == [name |-> name, state |-> state, hasUri |-> hasUri]

NoFile == File(FALSE, "undefined", FALSE)

\* an error: its message, and the state the message names (or "")
Err(msg, state) == [msg |-> msg, state |-> state]

NoError == Err("", "")

\* an HTTP response: success is "true", "false" or "absent" (no such field)
Response(status, success, analysis, error, method) ==
    [status |-> status, success |-> success, analysis |-> analysis,
     error |-> error, method |-> method]

NoResponse == Response(0, "absent", NoText, NoError, "")

\* a response that is no JSON body: an exception left the handler
Crash(e) == Response(-1, "absent", NoText, e, "")

\* an entry of the history: the call, its argument, its outcome, and a number
\* (the milliseconds of a delay)
Ev(op, arg, res, n) == [op |-> op, arg |-> arg, res |-> res, n |-> n]

VARIABLES
    apiKey,                 \* process.env.NEXT_PUBLIC_GEMINI_API_KEY is set
    fs,                     \* temp dir: state of the file at each path
    remote,                 \* staging area: state of each request's upload
    pc,                     \* where each request's handler stands
    input,                  \* the request body
    strategy,               \* branch taken at the size check
    tempFilePath,           \* POST's tempFilePath (NoPath or a path)
    uploadedFile,           \* the object returned by files.upload
    uploadedFileForDeletion,\* POST's uploadedFileForDeletion
    currentFile,            \* waitForFileProcessing's currentFile
    attempts,               \* waitForFileProcessing's attempts
    parts,                  \* media part handed to executeGeminiAnalysis
    analysisResult,         \* POST's analysisResult
    thrown,                 \* the error on its way to POST's catch
    pending,                \* the response returned by the try or the catch
    escaped,                \* an error thrown out of the finally block
    response,               \* the response the transport layer receives
    trace                   \* history of the calls issued

vars == <<apiKey, fs, remote, pc, input, strategy, tempFilePath, uploadedFile,
          uploadedFileForDeletion, currentFile, attempts, parts,
          analysisResult, thrown, pending, escaped, response, trace>>

\* the requests being served
Active == {r \in Reqs : input[r] # NoBody}

InitWith(A) ==
    /\ apiKey \in BOOLEAN
    /\ input \in [Reqs -> Bodies \cup {NoBody}]
    /\ \A r \in Reqs : (input[r] # NoBody) <=> (r \in A)
    /\ fs = [p \in Paths |-> "absent"]
    /\ remote = [r \in Reqs |-> "none"]
    /\ pc = [r \in Reqs |-> IF r \in A THEN "POST" ELSE "idle"]
    /\ strategy = [r \in Reqs |-> "none"]
    /\ tempFilePath = [r \in Reqs |-> NoPath]
    /\ uploadedFile = [r \in Reqs |-> NoFile]
    /\ uploadedFileForDeletion = [r \in Reqs |-> "null"]
    /\ currentFile = [r \in Reqs |-> NoFile]
    /\ attempts = [r \in Reqs |-> 0]
    /\ parts = [r \in Reqs |-> "none"]
    /\ analysisResult = [r \in Reqs |-> NoText]
    /\ thrown = [r \in Reqs |-> NoError]
    /\ pending = [r \in Reqs |-> NoResponse]
    /\ escaped = [r \in Reqs |-> NoError]
    /\ response = [r \in Reqs |-> NoResponse]
    /\ trace = [r \in Reqs |-> <<>>]

Init == InitWith({"r1"})

\* ------------------------------------------------------- decisions of the code
\* the size check of POST: fileSize <= GEMINI_BASE64_LIMIT
UseBase64Mutant(fileSize) == IsNumber(fileSize) /\ ~SizeLE(GEMINI_BASE64_LIMIT, fileSize)

UseBase64(fileSize) == Le(fileSize, GEMINI_BASE64_LIMIT)

\* POST: if (!apiKey)
CredentialMissingMutant(key) == FALSE

CredentialMissing(key) == ~key

\* the cap check of validateAndExtractFile: fileSize > MAX_FILE_SIZE
ExceedsMaxMutant(fileSize) == IsNumber(fileSize) /\ SizeLE(MAX_FILE_SIZE, fileSize)

ExceedsMax(fileSize) == Gt(fileSize, MAX_FILE_SIZE)

\* the loop condition of waitForFileProcessing
KeepPollingMutant(state, n) == state = "PROCESSING" /\ n <= PROCESSING_MAX_ATTEMPTS

KeepPollingUntilActive(state, n) == state # "ACTIVE" /\ n < PROCESSING_MAX_ATTEMPTS

KeepPollingAnyState(state, n) == n < PROCESSING_MAX_ATTEMPTS

KeepPolling(state, n) == state = "PROCESSING" /\ n < PROCESSING_MAX_ATTEMPTS

\* waitForFileProcessing: await delay(PROCESSING_DELAY) at the top of an
\* iteration, as it enters the history
PollSleepMutant(ms) == <<>>

PollSleep(ms) == <<Ev("delay", "", "", ms)>>

\* the check after the loop: anything but ACTIVE is a failure
ProcessingDoneMutant(state) == state # "FAILED"

ProcessingDone(state) == state = "ACTIVE"

\* Object.assign(uploadedFile, currentFile): the fields the source has
\* overwrite those of the target, the others are kept
ObjectAssign(target, source) ==
    File(target.name \/ source.name,
         IF source.state = "undefined" THEN target.state ELSE source.state,
         target.hasUri \/ source.hasUri)

\* method reported in fileInfo
ResponseMethodMutant(fileSize) == "Base64"

ResponseMethod(fileSize) == IF UseBase64(fileSize) THEN "Base64" ELSE "Files API"

\* where control goes when the try block returns (the finally block)
AfterTryMutant == "respond"

AfterTry == "cleanup"

\* where control goes when the catch block returns (the finally block)
AfterCatchMutant == "respond"

AfterCatchRetry == "route"

AfterCatch == "cleanup"

\* executeGeminiAnalysis: where control goes after the Flash attempt
AfterFlashMutant(ok) == IF ok THEN "success" ELSE "pro"

AfterFlashSwallow(ok) == "success"

AfterFlash(ok) == IF ok THEN "success" ELSE "backoff"

\* executeGeminiAnalysis: where control goes after the Pro attempt
\* ("catch": proError is rethrown and reaches POST's catch)
AfterProMutant(ok) == IF ok THEN "success" ELSE "backoff"

AfterPro(ok) == IF ok THEN "success" ELSE "catch"

\* POST: if (extendedFile.base64Data), false for a missing field and for ''
HasBase64DataMutant(data) == FALSE

HasBase64Data(data) == data = "data"

\* uploadFileWithFilesAPI: if (!uploadedFile.name)
NameMissingMutant(f) == FALSE

NameMissing(f) == ~f.name

\* POST: tempFilePath = await saveTemporaryFile(...): the path reaches
\* tempFilePath only when the save returns (res = "ok")
SavedPathMutant(res, path) == path

SavedPath(res, path) == IF res = "ok" THEN path ELSE NoPath

\* saveTemporaryFile returns (instead of throwing) when arrayBuffer() and
\* writeFile() both succeeded
SaveReturnsMutant(res) == res # "arrayBuffer_throws"

SaveReturns(res) == res = "ok"

\* the file found at a path (none at a path that names nothing)
FileAt(path) == IF path \in DOMAIN fs THEN fs[path] ELSE "absent"

\* cleanup: if (uploadedFile?.name), on POST's uploadedFileForDeletion
DeletesRemoteMutant(ref, f) == FALSE

DeletesRemoteAlways(ref, f) == TRUE

DeletesRemote(ref, f) == ref # "null" /\ f.name

\* cleanup: the first half of the guard of the local delete (tempFilePath && ...)
HasTempPath(path) == path # NoPath

\* cleanup: the second half of the guard: the unlink runs when stat found the file
StatGuardMutant(found) == TRUE

StatGuard(found) == found

\* POST: what follows the return of the response (nothing is left running)
AfterRespondMutant == "cleanup"

AfterRespondRegenerate == "flash"

AfterRespond == "done"

\* cleanup's catch block: the error that leaves cleanup (none: it is logged)
CleanupCatchMutant(e) == e

CleanupCatch(e) == NoError

\* ---------------------------------------------------------- the environment
\* With several requests in flight the outcomes of the provider and of the
\* file system are drawn from smaller sets.
Narrow == Cardinality(Active) > 1

\* outcomes of arrayBuffer() followed by fs.writeFile()
SaveOutcomes ==
    IF Narrow THEN {"ok", "throws_partial"}
    ELSE {"ok", "arrayBuffer_throws", "throws", "throws_partial"}

\* files a files.upload call may return
UploadResults ==
    IF Narrow THEN {File(TRUE, s, TRUE) : s \in {"PROCESSING", "ACTIVE"}}
    ELSE {File(n, s, u) : n \in BOOLEAN, s \in States, u \in BOOLEAN}

\* files a files.get call may return
GetResults ==
    IF Narrow THEN {File(TRUE, s, TRUE) : s \in {"ACTIVE", "FAILED"}}
    ELSE {File(n, s, u) : n \in BOOLEAN, s \in States, u \in BOOLEAN}

\* texts a model tier may answer with
GenTexts == IF Narrow THEN {1} ELSE Texts

\* ------------------------------------------------------------------ helpers
Log(r, events) == trace' = [trace EXCEPT ![r] = @ \o events]

Goto(r, where) == pc' = [pc EXCEPT ![r] = where]

\* an exception inside POST's try block: control goes to the catch block
Throw(r, e) ==
    /\ thrown' = [thrown EXCEPT ![r] = e]
    /\ Goto(r, "catch")

store == <<fs, remote>>

staged == <<uploadedFile, uploadedFileForDeletion, currentFile, attempts>>

outcome == <<analysisResult, pending, escaped, response>>

\* --------------------------------------------------------------- the handler
\* POST, up to the try block: the credential check
POST(r) ==
    /\ pc[r] = "POST"
    /\ IF CredentialMissing(apiKey)
       THEN /\ response' = [response EXCEPT ![r] =
                    Response(500, "absent", NoText, Err("api_key_missing", ""), "")]
            /\ Goto(r, "done")
            /\ Log(r, <<Ev("respond", "", "500", 0)>>)
       ELSE /\ Goto(r, "validateAndExtractFile")
            /\ Log(r, <<Ev("try", "", "", 0)>>)
            /\ UNCHANGED response
    /\ UNCHANGED <<apiKey, input, store, staged, strategy, tempFilePath, parts,
                   thrown, analysisResult, pending, escaped>>

\* validateAndExtractFile: reads the body and checks it
ValidateAndExtractFile(r) ==
    /\ pc[r] = "validateAndExtractFile"
    /\ LET in == input[r]
           read == IF in.kind = "json" THEN "json" ELSE "formData"
           bad ==
             IF ~in.bodyOk THEN Err("body_unreadable", "")
             ELSE IF in.kind = "json" /\ in.method # "base64"
                  THEN Err("invalid_request_format", "")
             ELSE IF in.kind = "form" /\ ~in.hasFile
                  THEN Err("no_file_selected", "")
             ELSE IF ExceedsMax(in.fileSize)
                  THEN Err("size_over_2GB", "")
             ELSE NoError
       IN  /\ Log(r, <<Ev(read, "", IF in.bodyOk THEN "ok" ELSE "throw", 0),
                       Ev("validate", "", bad.msg, 0)>>)
           /\ IF bad # NoError
              THEN Throw(r, bad)
              ELSE Goto(r, "route") /\ UNCHANGED thrown
    /\ UNCHANGED <<apiKey, input, store, staged, strategy, tempFilePath, parts,
                   outcome>>

\* POST: the size check that picks the Base64 branch or the Files API branch
Route(r) ==
    /\ pc[r] = "route"
    /\ LET in == input[r] IN
       IF UseBase64(in.fileSize)
       THEN /\ strategy' = [strategy EXCEPT ![r] = "inline"]
            /\ IF HasBase64Data(in.base64Data)
               THEN /\ parts' = [parts EXCEPT ![r] = "inlineData"]
                    /\ Goto(r, "flash")
               ELSE /\ Goto(r, "saveTemporaryFile")
                    /\ UNCHANGED parts
       ELSE /\ strategy' = [strategy EXCEPT ![r] = "staged"]
            /\ Goto(r, "saveTemporaryFile")
            /\ UNCHANGED parts
    /\ UNCHANGED <<apiKey, input, store, staged, tempFilePath, thrown, outcome,
                   trace>>

\* saveTemporaryFile: writes the upload to <tmpdir>/<uuid>_<name>; the path
\* reaches POST's tempFilePath only when the function returns
SaveTemporaryFile(r) ==
    /\ pc[r] = "saveTemporaryFile"
    /\ IF input[r].kind # "form"
       THEN /\ Throw(r, Err("extended_file_not_supported", ""))
            /\ UNCHANGED <<fs, tempFilePath, trace>>
       ELSE \E res \in SaveOutcomes :
            LET path == TempPath(RandomUUID(r), FileName) IN
            /\ fs' = [fs EXCEPT ![path] =
                        CASE res = "ok" -> "complete"
                          [] res = "throws_partial" -> "partial"
                          [] OTHER -> @]
            /\ tempFilePath' = [tempFilePath EXCEPT ![r] = SavedPath(res, path)]
            /\ IF SaveReturns(res)
               THEN /\ Goto(r, IF strategy[r] = "inline"
                               THEN "processWithBase64"
                               ELSE "uploadFileWithFilesAPI")
                    /\ UNCHANGED thrown
               ELSE Throw(r, Err("io_error", ""))
            /\ Log(r, IF res = "arrayBuffer_throws" THEN <<>>
                      ELSE <<Ev("writeFile", "", res, 0)>>)
    /\ UNCHANGED <<apiKey, input, remote, staged, strategy, parts, outcome>>

\* processWithBase64: reads the temp file back and encodes it
ProcessWithBase64(r) ==
    /\ pc[r] = "processWithBase64"
    /\ \E ok \in (IF FileAt(tempFilePath[r]) = "complete" THEN BOOLEAN ELSE {FALSE}) :
        /\ Log(r, <<Ev("readFile", "", IF ok THEN "ok" ELSE "throw", 0)>>)
        /\ IF ok
           THEN /\ parts' = [parts EXCEPT ![r] = "inlineData"]
                /\ Goto(r, "flash")
                /\ UNCHANGED thrown
           ELSE /\ Throw(r, Err("io_error", ""))
                /\ UNCHANGED parts
    /\ UNCHANGED <<apiKey, input, store, staged, strategy, tempFilePath, outcome>>

\* uploadFileWithFilesAPI: files.upload and the name check; then it enters
\* waitForFileProcessing (attempts = 0, currentFile = uploadedFile)
UploadFileWithFilesAPI(r) ==
    /\ pc[r] = "uploadFileWithFilesAPI"
    /\ \/ /\ Log(r, <<Ev("upload", "", "throw", 0)>>)
          /\ Throw(r, Err("upload_failed", ""))
          /\ UNCHANGED <<remote, uploadedFile, currentFile, attempts>>
       \/ \E f \in UploadResults :
          /\ FileAt(tempFilePath[r]) = "complete"
          /\ Log(r, <<Ev("upload", "", f.state, 0)>>)
          /\ remote' = [remote EXCEPT ![r] = "staged"]
          /\ uploadedFile' = [uploadedFile EXCEPT ![r] = f]
          /\ IF NameMissing(f)
             THEN /\ Throw(r, Err("uploaded_name_missing", ""))
                  /\ UNCHANGED <<currentFile, attempts>>
             ELSE /\ currentFile' = [currentFile EXCEPT ![r] = f]
                  /\ attempts' = [attempts EXCEPT ![r] = 0]
                  /\ Goto(r, "waitForFileProcessing")
                  /\ UNCHANGED thrown
    /\ UNCHANGED <<apiKey, input, fs, uploadedFileForDeletion, strategy,
                   tempFilePath, parts, outcome>>

\* waitForFileProcessing: the loop condition, then either the delay that
\* opens an iteration or the check that follows the loop
WaitForFileProcessing(r) ==
    /\ pc[r] = "waitForFileProcessing"
    /\ IF KeepPolling(currentFile[r].state, attempts[r])
       THEN /\ Log(r, PollSleep(PROCESSING_DELAY))
            /\ Goto(r, "poll")
            /\ UNCHANGED thrown
       ELSE /\ IF ~ProcessingDone(currentFile[r].state)
               THEN Throw(r, Err("processing_not_completed", currentFile[r].state))
               ELSE Goto(r, "processWithFilesAPI") /\ UNCHANGED thrown
            /\ UNCHANGED trace
    /\ UNCHANGED <<apiKey, input, store, staged, strategy, tempFilePath, parts,
                   outcome>>

\* waitForFileProcessing: the rest of an iteration, after the delay
Poll(r) ==
    /\ pc[r] = "poll"
    /\ IF ~currentFile[r].name
       THEN /\ Throw(r, Err("name_lost", ""))
            /\ UNCHANGED <<uploadedFile, currentFile, attempts, trace>>
       ELSE \/ /\ Log(r, <<Ev("get", "", "throw", 0)>>)
               /\ Throw(r, Err("get_failed", ""))
               /\ UNCHANGED <<uploadedFile, currentFile, attempts>>
            \/ \E f \in GetResults :
               /\ Log(r, <<Ev("get", "", f.state, 0)>>)
               /\ currentFile' = [currentFile EXCEPT ![r] = f]
               /\ attempts' = [attempts EXCEPT ![r] = @ + 1]
               /\ uploadedFile' = [uploadedFile EXCEPT ![r] = ObjectAssign(@, f)]
               /\ Goto(r, "waitForFileProcessing")
               /\ UNCHANGED thrown
    /\ UNCHANGED <<apiKey, input, store, uploadedFileForDeletion, strategy,
                   tempFilePath, parts, outcome>>

\* POST after uploadFileWithFilesAPI has returned: uploadedFileForDeletion is
\* set, then processWithFilesAPI checks the mimeType and the uri
ProcessWithFilesAPI(r) ==
    /\ pc[r] = "processWithFilesAPI"
    /\ uploadedFileForDeletion' = [uploadedFileForDeletion EXCEPT ![r] = "uploadedFile"]
    /\ IF ~uploadedFile[r].hasUri
       THEN /\ Throw(r, Err("uri_missing", ""))
            /\ UNCHANGED parts
       ELSE /\ parts' = [parts EXCEPT ![r] = "fileData"]
            /\ Goto(r, "flash")
            /\ UNCHANGED thrown
    /\ UNCHANGED <<apiKey, input, store, uploadedFile, currentFile, attempts,
                   strategy, tempFilePath, outcome, trace>>

\* outcomes of a generateContent call followed by response.text()
GenOutcomes ==
    IF Narrow THEN {"ok", "call_throws"} ELSE {"ok", "call_throws", "text_throws"}

\* executeGeminiAnalysis: the gemini-1.5-flash attempt
Flash(r) ==
    /\ pc[r] = "flash"
    /\ \E res \in GenOutcomes, t \in GenTexts :
        /\ res # "ok" => t = 1
        /\ Log(r, <<Ev("generateContent", "gemini-1.5-flash", res,
                       IF res = "ok" THEN t ELSE NoText)>>)
        /\ analysisResult' = [analysisResult EXCEPT ![r] = IF res = "ok" THEN t ELSE @]
        /\ Goto(r, AfterFlash(res = "ok"))
    /\ UNCHANGED <<apiKey, input, store, staged, strategy, tempFilePath, parts,
                   thrown, pending, escaped, response>>

\* executeGeminiAnalysis: delay(2000) before the fallback
Backoff(r) ==
    /\ pc[r] = "backoff"
    /\ Log(r, <<Ev("delay", "", "", FALLBACK_DELAY)>>)
    /\ Goto(r, "pro")
    /\ UNCHANGED <<apiKey, input, store, staged, strategy, tempFilePath, parts,
                   thrown, outcome>>

\* executeGeminiAnalysis: the gemini-1.5-pro attempt; its error is rethrown
Pro(r) ==
    /\ pc[r] = "pro"
    /\ \E res \in GenOutcomes, t \in GenTexts :
        /\ res # "ok" => t = 1
        /\ Log(r, <<Ev("generateContent", "gemini-1.5-pro", res,
                       IF res = "ok" THEN t ELSE NoText)>>)
        /\ analysisResult' = [analysisResult EXCEPT ![r] = IF res = "ok" THEN t ELSE @]
        /\ thrown' = [thrown EXCEPT ![r] = IF res = "ok" THEN @ ELSE Err("pro_error", res)]
        /\ Goto(r, AfterPro(res = "ok"))
    /\ UNCHANGED <<apiKey, input, store, staged, strategy, tempFilePath, parts,
                   pending, escaped, response>>

\* POST: the success response built at the end of the try block
Success(r) ==
    /\ pc[r] = "success"
    /\ pending' = [pending EXCEPT ![r] =
            Response(200, "true", analysisResult[r], NoError,
                     ResponseMethod(input[r].fileSize))]
    /\ Log(r, <<Ev("return", "", "success", 0)>>)
    /\ Goto(r, AfterTry)
    /\ UNCHANGED <<apiKey, input, store, staged, strategy, tempFilePath, parts,
                   thrown, analysisResult, escaped, response>>

\* POST: the catch block and its error response
Catch(r) ==
    /\ pc[r] = "catch"
    /\ pending' = [pending EXCEPT ![r] = Response(500, "false", NoText, thrown[r], "")]
    /\ Log(r, <<Ev("return", "", "error", 0)>>)
    /\ Goto(r, AfterCatch)
    /\ UNCHANGED <<apiKey, input, store, staged, strategy, tempFilePath, parts,
                   thrown, analysisResult, escaped, response>>

\* cleanup: the remote delete, when an uploaded file with a name was recorded
Cleanup(r) ==
    /\ pc[r] = "cleanup"
    /\ IF DeletesRemote(uploadedFileForDeletion[r], uploadedFile[r])
       THEN \E ok \in BOOLEAN :
            /\ Log(r, <<Ev("cleanup", "", "begin", 0),
                        Ev("delete", "", IF ok THEN "ok" ELSE "throw", 0)>>
                      \o (IF ok THEN <<>> ELSE <<Ev("cleanup", "", "end", 0)>>))
            /\ remote' = [remote EXCEPT ![r] = IF ok THEN "deleted" ELSE @]
            /\ escaped' = [escaped EXCEPT ![r] =
                    IF ok THEN @ ELSE CleanupCatch(Err("delete_failed", ""))]
            /\ Goto(r, IF ok THEN "stat" ELSE "respond")
       ELSE /\ Log(r, <<Ev("cleanup", "", "begin", 0)>>)
            /\ Goto(r, "stat")
            /\ UNCHANGED <<remote, escaped>>
    /\ UNCHANGED <<apiKey, input, fs, staged, strategy, tempFilePath, parts,
                   thrown, analysisResult, pending, response>>

\* cleanup: tempFilePath && await fs.stat(tempFilePath).catch(() => false)
Stat(r) ==
    /\ pc[r] = "stat"
    /\ IF ~HasTempPath(tempFilePath[r])
       THEN /\ Log(r, <<Ev("cleanup", "", "end", 0)>>)
            /\ Goto(r, "respond")
       ELSE \E found \in (IF FileAt(tempFilePath[r]) = "absent" THEN {FALSE} ELSE BOOLEAN) :
            /\ Log(r, <<Ev("stat", "", IF found THEN "found" ELSE "false", 0)>>
                      \o (IF StatGuard(found) THEN <<>> ELSE <<Ev("cleanup", "", "end", 0)>>))
            /\ Goto(r, IF StatGuard(found) THEN "unlink" ELSE "respond")
    /\ UNCHANGED <<apiKey, input, store, staged, strategy, tempFilePath, parts,
                   thrown, outcome>>

\* cleanup: fs.unlink(tempFilePath)
Unlink(r) ==
    /\ pc[r] = "unlink"
    /\ \E ok \in (IF FileAt(tempFilePath[r]) = "absent" THEN {FALSE} ELSE BOOLEAN) :
        /\ Log(r, <<Ev("unlink", "", IF ok THEN "ok" ELSE "throw", 0),
                    Ev("cleanup", "", "end", 0)>>)
        /\ fs' = IF ok THEN [fs EXCEPT ![tempFilePath[r]] = "absent"] ELSE fs
        /\ escaped' = [escaped EXCEPT ![r] =
                IF ok THEN @ ELSE CleanupCatch(Err("unlink_failed", ""))]
        /\ Goto(r, "respond")
    /\ UNCHANGED <<apiKey, input, remote, staged, strategy, tempFilePath, parts,
                   thrown, analysisResult, pending, response>>

\* POST returns: the transport layer gets the response of the try or the
\* catch block, unless an error was thrown out of the finally block
Respond(r) ==
    /\ pc[r] = "respond"
    /\ response' = [response EXCEPT ![r] =
            IF escaped[r] # NoError THEN Crash(escaped[r]) ELSE pending[r]]
    /\ Log(r, <<Ev("respond", "", IF escaped[r] # NoError THEN "crash"
                                  ELSE pending[r].success, 0)>>)
    /\ Goto(r, AfterRespond)
    /\ UNCHANGED <<apiKey, input, store, staged, strategy, tempFilePath, parts,
                   thrown, analysisResult, pending, escaped>>

Step(r) ==
    \/ POST(r)
    \/ ValidateAndExtractFile(r)
    \/ Route(r)
    \/ SaveTemporaryFile(r)
    \/ ProcessWithBase64(r)
    \/ UploadFileWithFilesAPI(r)
    \/ WaitForFileProcessing(r)
    \/ Poll(r)
    \/ ProcessWithFilesAPI(r)
    \/ Flash(r)
    \/ Backoff(r)
    \/ Pro(r)
    \/ Success(r)
    \/ Catch(r)
    \/ Cleanup(r)
    \/ Stat(r)
    \/ Unlink(r)
    \/ Respond(r)

Next == \E r \in Reqs : Step(r)

Spec == Init /\ [][Next]_vars

\* Every awaited call eventually returns or throws, and the continuation of
\* an invocation then runs: a request that can take a step takes one.
SpecLive == Init /\ [][Next]_vars /\ \A r \in Reqs : WF_vars(Step(r))

\* ---------------------------------------------------- concurrent requests
\* Two invocations of POST in flight at once: one upload for each branch
\* size, the credential set.
ConcSizes == {Size(10, 0), Size(25, 0)}

ConcBodies == {Body("form", TRUE, TRUE, "", s, "absent") : s \in ConcSizes}

InitConc ==
    /\ InitWith(Reqs)
    /\ apiKey
    /\ \A r \in Reqs : input[r] \in ConcBodies

SpecConc == InitConc /\ [][Next]_vars

\* -------------------------------------------------------- cleanup by itself
\* cleanup(tempFilePath, uploadedFile, apiKey) applied to arguments and a
\* temp directory drawn freely, and applied again with the same arguments.
MaxCleanupRuns == 2

\* completed runs of cleanup
CleanupRuns(r) == Cardinality({i \in 1..Len(trace[r]) :
                      trace[r][i].op = "cleanup" /\ trace[r][i].res = "end"})

InitCleanup ==
    /\ apiKey = TRUE
    /\ input = [r \in Reqs |-> IF r = "r1" THEN Body("form", TRUE, TRUE, "", Size(25, 0), "absent")
                               ELSE NoBody]
    /\ tempFilePath \in [Reqs -> {NoPath, TempPath(RandomUUID("r1"), FileName)}]
    /\ tempFilePath["r2"] = NoPath
    /\ fs \in [Paths -> {"absent", "partial", "complete"}]
    /\ \A p \in Paths : p # TempPath(RandomUUID("r1"), FileName) => fs[p] = "absent"
    /\ uploadedFileForDeletion \in [Reqs -> {"null", "uploadedFile"}]
    /\ uploadedFileForDeletion["r2"] = "null"
    /\ uploadedFile \in [Reqs -> {NoFile, File(TRUE, "ACTIVE", TRUE), File(FALSE, "ACTIVE", TRUE)}]
    /\ uploadedFile["r2"] = NoFile
    /\ (uploadedFileForDeletion["r1"] = "null") <=> (uploadedFile["r1"] = NoFile)
    /\ remote = [r \in Reqs |-> IF uploadedFile[r] = NoFile THEN "none" ELSE "staged"]
    /\ pc = [r \in Reqs |-> IF r = "r1" THEN "cleanup" ELSE "idle"]
    /\ strategy = [r \in Reqs |-> "none"]
    /\ currentFile = uploadedFile
    /\ attempts = [r \in Reqs |-> 0]
    /\ parts = [r \in Reqs |-> "none"]
    /\ analysisResult = [r \in Reqs |-> NoText]
    /\ thrown = [r \in Reqs |-> NoError]
    /\ pending = [r \in Reqs |-> NoResponse]
    /\ escaped = [r \in Reqs |-> NoError]
    /\ response = [r \in Reqs |-> NoResponse]
    /\ trace = [r \in Reqs |-> <<>>]

\* cleanup is called once more with the arguments of the call that returned
CleanupAgain(r) ==
    /\ pc[r] = "respond"
    /\ CleanupRuns(r) < MaxCleanupRuns
    /\ pc' = [pc EXCEPT ![r] = "cleanup"]
    /\ UNCHANGED <<apiKey, input, store, staged, strategy, tempFilePath, parts,
                   thrown, outcome, trace>>

NextCleanup ==
    \E r \in Reqs : Cleanup(r) \/ Stat(r) \/ Unlink(r) \/ CleanupAgain(r)

SpecCleanup == InitCleanup /\ [][NextCleanup]_vars


\* ------------------------------------------------------- POST /api/analyze
\* The JSON endpoint: { videoBase64 } in, one gemini-1.5-flash call, no temp
\* file. A request body is a Body of kind "analyze": bodyOk says whether
\* request.json() parses it, base64Data whether videoBase64 is present
\* ("absent"), the empty string ("empty") or a value ("data"), and fileSize
\* is videoBase64.length (NaNSize when the value has no numeric length). The
\* credential read is process.env.GEMINI_API_KEY, held in apiKey.

\* s * k
Times(s, k) ==
    IF ~IsNumber(s) THEN NaNSize
    ELSE [mb |-> k * s.mb + ((k * s.b) \div MB), b |-> (k * s.b) % MB]

\* const maxSize = 30 * 1024 * 1024
AnalyzeMaxSize == Size(30, 0)

\* const maxBase64Size = 40 * 1024 * 1024
AnalyzeMaxBase64Size == Size(40, 0)

\* estimatedSize > maxSize, with estimatedSize = (videoBase64.length * 3) / 4:
\* the division is exact, so the comparison is that of length * 3 with
\* maxSize * 4
EstimateExceedsMutant(len) == Gt(Times(len, 3), Times(Size(50, 0), 4))

EstimateExceeds(len) == Gt(Times(len, 3), Times(AnalyzeMaxSize, 4))

\* videoBase64.length > maxBase64Size
Base64ExceedsMutant(len) == Gt(len, Size(39, 0))

Base64Exceeds(len) == Gt(len, AnalyzeMaxBase64Size)

\* if (!videoBase64)
VideoMissing(data) == data \in {"absent", "empty"}

\* lengths of videoBase64 around the two limits: 20MB, 40MB - 4, 40MB - 1,
\* 40MB, 40MB + 1, 40MB + 4, 41MB, 64MB (a video of 48MB), and a value
\* without a length
AnalyzeLengths ==
    { Size(20, 0), Size(39, MB - 4), Size(39, MB - 1), Size(40, 0), Size(40, 1),
      Size(40, 4), Size(41, 0), Size(64, 0), NaNSize }

AnalyzeBodies ==
    {Body("analyze", FALSE, FALSE, "", NaNSize, "absent")}
    \cup {Body("analyze", TRUE, FALSE, "", NaNSize, d) : d \in {"absent", "empty"}}
    \cup {Body("analyze", TRUE, FALSE, "", len, "data") : len \in AnalyzeLengths}

\* messages of the errors the try block may throw, with the substrings the
\* catch block looks for in each
Messages ==
    {"413", "too large", "timeout", "504", "413 timeout", "too large 504",
     "other"}

Includes(msg, sub) ==
    sub \in (CASE msg = "413" -> {"413"}
               [] msg = "too large" -> {"too large"}
               [] msg = "timeout" -> {"timeout"}
               [] msg = "504" -> {"504"}
               [] msg = "413 timeout" -> {"413", "timeout"}
               [] msg = "too large 504" -> {"too large", "504"}
               [] OTHER -> {})

\* thrown values: Error objects with a message, or values that are no Error
\* (state "value": the catch block never reads their message)
Thrown == {Err(m, "Error") : m \in Messages} \cup {Err(m, "value") : m \in {"413", "other"}}

\* the catch block of /api/analyze: the status chosen for a thrown value
ClassifyMutant(e) ==
    IF e.state = "Error" /\ (Includes(e.msg, "timeout") \/ Includes(e.msg, "504"))
    THEN Response(504, "absent", NoText, Err("timeout", ""), "")
    ELSE IF e.state = "Error" /\ (Includes(e.msg, "413") \/ Includes(e.msg, "too large"))
    THEN Response(413, "absent", NoText, Err("too_large", ""), "")
    ELSE Response(500, "absent", NoText, Err("analysis_error", ""), "")

Classify(e) ==
    IF e.state = "Error" /\ (Includes(e.msg, "413") \/ Includes(e.msg, "too large"))
    THEN Response(413, "absent", NoText, Err("too_large", ""), "")
    ELSE IF e.state = "Error" /\ (Includes(e.msg, "timeout") \/ Includes(e.msg, "504"))
    THEN Response(504, "absent", NoText, Err("timeout", ""), "")
    ELSE Response(500, "absent", NoText, Err("analysis_error", ""), "")

\* an exception inside the try block of /api/analyze
AnalyzeThrow(r, e) ==
    /\ thrown' = [thrown EXCEPT ![r] = e]
    /\ Goto(r, "analyze.catch")

\* a response returned by /api/analyze
AnalyzeReturn(r, resp) ==
    /\ response' = [response EXCEPT ![r] = resp]
    /\ pc' = [pc EXCEPT ![r] = "done"]

\* POST: the credential check
AnalyzePOST(r) ==
    /\ pc[r] = "analyze"
    /\ IF CredentialMissing(apiKey)
       THEN /\ AnalyzeReturn(r, Response(500, "absent", NoText, Err("api_key_missing", ""), ""))
            /\ Log(r, <<Ev("respond", "", "500", 0)>>)
       ELSE /\ Goto(r, "analyze.json")
            /\ UNCHANGED <<response, trace>>
    /\ UNCHANGED <<apiKey, input, store, staged, strategy, tempFilePath, parts,
                   thrown, analysisResult, pending, escaped>>

\* POST: request.json(), then the three checks on videoBase64 in their order
AnalyzeChecks(r) ==
    /\ pc[r] = "analyze.json"
    /\ LET in == input[r] IN
       IF ~in.bodyOk
       THEN \E e \in Thrown :
            /\ Log(r, <<Ev("json", "", "throw", 0)>>)
            /\ AnalyzeThrow(r, e)
            /\ UNCHANGED response
       ELSE IF VideoMissing(in.base64Data)
       THEN /\ AnalyzeReturn(r, Response(400, "absent", NoText, Err("no_video", ""), ""))
            /\ Log(r, <<Ev("json", "", "ok", 0), Ev("respond", "", "400", 0)>>)
            /\ UNCHANGED thrown
       ELSE IF EstimateExceeds(in.fileSize)
       THEN /\ AnalyzeReturn(r, Response(413, "absent", NoText, Err("size_over_30MB", ""), ""))
            /\ Log(r, <<Ev("json", "", "ok", 0), Ev("check", "", "estimatedSize", 0),
                        Ev("respond", "", "413", 0)>>)
            /\ UNCHANGED thrown
       ELSE IF Base64Exceeds(in.fileSize)
       THEN /\ AnalyzeReturn(r, Response(413, "absent", NoText, Err("base64_over_40MB", ""), ""))
            /\ Log(r, <<Ev("json", "", "ok", 0), Ev("check", "", "base64Size", 0),
                        Ev("respond", "", "413", 0)>>)
            /\ UNCHANGED thrown
       ELSE /\ Goto(r, "analyze.generate")
            /\ Log(r, <<Ev("json", "", "ok", 0), Ev("check", "", "", 0)>>)
            /\ UNCHANGED <<thrown, response>>
    /\ UNCHANGED <<apiKey, input, store, staged, strategy, tempFilePath, parts,
                   analysisResult, pending, escaped>>

\* POST: model.generateContent, response.text(), and the success response
AnalyzeGenerate(r) ==
    /\ pc[r] = "analyze.generate"
    /\ \/ \E t \in Texts :
          /\ Log(r, <<Ev("generateContent", "gemini-1.5-flash", "ok", t),
                      Ev("respond", "", "true", 0)>>)
          /\ analysisResult' = [analysisResult EXCEPT ![r] = t]
          /\ AnalyzeReturn(r, Response(200, "true", t, NoError, ""))
          /\ UNCHANGED thrown
       \/ \E e \in Thrown, res \in {"call_throws", "text_throws"} :
          /\ Log(r, <<Ev("generateContent", "gemini-1.5-flash", res, NoText)>>)
          /\ AnalyzeThrow(r, e)
          /\ UNCHANGED <<analysisResult, response>>
    /\ UNCHANGED <<apiKey, input, store, staged, strategy, tempFilePath, parts,
                   pending, escaped>>

\* POST: the catch block
AnalyzeCatch(r) ==
    /\ pc[r] = "analyze.catch"
    /\ AnalyzeReturn(r, Classify(thrown[r]))
    /\ Log(r, <<Ev("respond", "", "error", 0)>>)
    /\ UNCHANGED <<apiKey, input, store, staged, strategy, tempFilePath, parts,
                   thrown, analysisResult, pending, escaped>>

StepAnalyze(r) ==
    \/ AnalyzePOST(r)
    \/ AnalyzeChecks(r)
    \/ AnalyzeGenerate(r)
    \/ AnalyzeCatch(r)

InitAnalyze ==
    /\ apiKey \in BOOLEAN
    /\ input \in [Reqs -> AnalyzeBodies \cup {NoBody}]
    /\ \A r \in Reqs : (input[r] # NoBody) <=> (r = "r1")
    /\ fs = [p \in Paths |-> "absent"]
    /\ remote = [r \in Reqs |-> "none"]
    /\ pc = [r \in Reqs |-> IF r = "r1" THEN "analyze" ELSE "idle"]
    /\ strategy = [r \in Reqs |-> "none"]
    /\ tempFilePath = [r \in Reqs |-> NoPath]
    /\ uploadedFile = [r \in Reqs |-> NoFile]
    /\ uploadedFileForDeletion = [r \in Reqs |-> "null"]
    /\ currentFile = [r \in Reqs |-> NoFile]
    /\ attempts = [r \in Reqs |-> 0]
    /\ parts = [r \in Reqs |-> "none"]
    /\ analysisResult = [r \in Reqs |-> NoText]
    /\ thrown = [r \in Reqs |-> NoError]
    /\ pending = [r \in Reqs |-> NoResponse]
    /\ escaped = [r \in Reqs |-> NoError]
    /\ response = [r \in Reqs |-> NoResponse]
    /\ trace = [r \in Reqs |-> <<>>]

NextAnalyze == \E r \in Reqs : StepAnalyze(r)

SpecAnalyze == InitAnalyze /\ [][NextAnalyze]_vars

\* both endpoints: a request to /api/analyze-file or a request to
\* /api/analyze
InitEndpoints == Init \/ InitAnalyze

NextEndpoints == Next \/ NextAnalyze

SpecEndpoints == InitEndpoints /\ [][NextEndpoints]_vars

\* ------------------------------------------------------ reading the history
Idx(r) == 1..Len(trace[r])

\* positions of the calls of one kind
Calls(r, op) == {i \in Idx(r) : trace[r][i].op = op}

\* positions of the calls of one kind with one outcome
CallsWith(r, op, res) == {i \in Calls(r, op) : trace[r][i].res = res}

Last(S) == CHOOSE i \in S : \A j \in S : j <= i

\* positions at which the state of the staged file was observed
Observed(r) == Calls(r, "upload") \cup Calls(r, "get")

Generations(r, model) == {i \in Calls(r, "generateContent") : trace[r][i].arg = model}

FlashFailed(r) == \E i \in Generations(r, "gemini-1.5-flash") : trace[r][i].res # "ok"

ProFailed(r) == \E i \in Generations(r, "gemini-1.5-pro") : trace[r][i].res # "ok"

Entered(r) == Calls(r, "try") # {}

\* the state of the file at the temp path of request r
TempFile(r) == FileAt(TempPath(RandomUUID(r), FileName))

\* the size is a number of bytes that is at most 20 * 1024 * 1024
AtMost20MB(s) == s.mb >= 0 /\ (s.mb < 20 \/ (s.mb = 20 /\ s.b = 0))

\* the size is a number of bytes that is at most 2 * 1024 * 1024 * 1024
AtMost2GB(s) == s.mb >= 0 /\ (s.mb < 2048 \/ (s.mb = 2048 /\ s.b = 0))

\* ------------------------------------------------------------------- claims

\* C1: for every accepted request (size at most the 2GB cap) the branch is
\* decided by the size alone: the inline (Base64) branch is taken exactly
\* when the size is at most 20MB, the staged (Files API) branch exactly when
\* it is larger; only requests above 20MB ever upload, only requests of at
\* most 20MB ever read the temp file back or send inline data.
C1_RoutingBySize ==
    \A r \in Reqs :
        LET s == input[r].fileSize IN
        /\ (strategy[r] # "none" /\ AtMost2GB(s)) =>
              /\ (strategy[r] = "inline") <=> AtMost20MB(s)
              /\ (strategy[r] = "staged") <=> ~AtMost20MB(s)
        /\ Calls(r, "upload") # {} => (AtMost2GB(s) /\ ~AtMost20MB(s))
        /\ (Calls(r, "readFile") # {} \/ parts[r] = "inlineData") => AtMost20MB(s)

\* a request of exactly 20MB has gone down the inline branch to a generation call
C1_Witness ==
    \E r \in Reqs :
        /\ input[r].fileSize = Size(20, 0)
        /\ strategy[r] = "inline"
        /\ Calls(r, "readFile") # {}
        /\ Calls(r, "generateContent") # {}

\* C2: on the staged branch a generation call is issued only when the last
\* state observed for the staged file (by the upload or by a status get) is
\* ACTIVE; the file reference is never built for any other state.
C2_GenerationOnlyAfterActive ==
    \A r \in Reqs :
        /\ \A i \in Calls(r, "generateContent") :
              strategy[r] = "staged" =>
                LET seen == {j \in Observed(r) : j < i} IN
                seen # {} /\ trace[r][Last(seen)].res = "ACTIVE"
        /\ parts[r] = "fileData" =>
              Observed(r) # {} /\ trace[r][Last(Observed(r))].res = "ACTIVE"

\* a staged file was seen PROCESSING, then ACTIVE, and a generation call followed
C2_Witness ==
    \E r \in Reqs :
        /\ parts[r] = "fileData"
        /\ CallsWith(r, "get", "PROCESSING") # {}
        /\ CallsWith(r, "get", "ACTIVE") # {}
        /\ Calls(r, "generateContent") # {}

\* the ten status gets of the request all answered PROCESSING
PollBudgetExhausted(r) ==
    /\ Cardinality(Calls(r, "get")) = 10
    /\ \A i \in Observed(r) : trace[r][i].res = "PROCESSING"

\* C3: when the poll budget is exhausted with the file still PROCESSING, the
\* request ends with a processing-failure response and cleanup has issued a
\* remote delete for the uploaded file before the response is returned.
C3_TimeoutStillDeletesRemote ==
    \A r \in Reqs :
        (pc[r] = "done" /\ PollBudgetExhausted(r)) =>
            /\ response[r].success = "false"
            /\ response[r].error.msg = "processing_not_completed"
            /\ Calls(r, "delete") # {}

\* no cleanup operation of the request has failed
CleanupSucceeded(r) ==
    /\ CallsWith(r, "delete", "throw") = {}
    /\ CallsWith(r, "stat", "false") = {}
    /\ CallsWith(r, "unlink", "throw") = {}

\* C4: a request whose temp file was saved leaves no temp file behind when
\* its response is returned, on every exit path of the main logic, provided
\* the cleanup operations themselves succeed.
C4_TempFileGone ==
    \A r \in Reqs :
        (pc[r] = "done" /\ CallsWith(r, "writeFile", "ok") # {} /\ CleanupSucceeded(r))
            => TempFile(r) = "absent"

\* a request that saved its temp file has failed in the main logic, and the
\* file is gone when the response is returned
C4_Witness ==
    \E r \in Reqs :
        /\ pc[r] = "done"
        /\ CallsWith(r, "writeFile", "ok") # {}
        /\ response[r].success = "false"
        /\ CallsWith(r, "unlink", "ok") # {}
        /\ TempFile(r) = "absent"

C6_CleanupNeverMasksResult ==
    \A r \in Reqs :
        /\ (pc[r] = "done" /\ Entered(r)) =>
              /\ escaped[r] = NoError
              /\ response[r] = pending[r]
              /\ response[r].status \in {200, 500}
              /\ (response[r].status = 200) <=> (CallsWith(r, "return", "success") # {})
        /\ (pc[r] \in {"cleanup", "stat", "unlink", "respond", "done"} /\ Entered(r)) =>
              /\ Calls(r, "return") # {}
              /\ pending[r] =
                    IF CallsWith(r, "return", "success") # {}
                    THEN Response(200, "true", analysisResult[r], NoError,
                                  pending[r].method)
                    ELSE Response(500, "false", NoText, thrown[r], "")

\* a successful analysis was answered as such although the remote delete
\* failed during cleanup
C6_Witness ==
    \E r \in Reqs :
        /\ pc[r] = "done"
        /\ CallsWith(r, "delete", "throw") # {}
        /\ response[r].success = "true"
        /\ response[r].analysis \in Texts

\* C7: every request that entered the main logic (the try block, which a
\* request without credential never does) and was answered went through
\* cleanup in between: the main logic returns its result or error,
\* then cleanup begins, then cleanup ends, and only then is the response
\* returned; cleanup never begins before the main logic has returned.
C7_CleanupBeforeResponse ==
    \A r \in Reqs :
        /\ (pc[r] = "done" /\ Entered(r)) =>
              /\ trace[r][Len(trace[r])].op = "respond"
              /\ \E i \in Calls(r, "return") :
                 \E j \in CallsWith(r, "cleanup", "begin") :
                 \E k \in CallsWith(r, "cleanup", "end") :
                     i < j /\ j < k /\ k < Len(trace[r])
        /\ \A j \in Calls(r, "cleanup") : \E i \in Calls(r, "return") : i < j
        /\ \A l \in Calls(r, "respond") : l = Len(trace[r])

\* a request was answered with success after cleanup deleted its temp file
C7_Witness ==
    \E r \in Reqs :
        /\ pc[r] = "done"
        /\ response[r].success = "true"
        /\ CallsWith(r, "unlink", "ok") # {}

\* C8: the gemini-1.5-pro call is issued exactly when the gemini-1.5-flash
\* attempt failed (the call or the text extraction threw), at most once, and
\* the 2000 ms delay lies between the failed Flash attempt and the Pro call.
C8_FallbackOnceAfterBackoff ==
    \A r \in Reqs :
        /\ Cardinality(Generations(r, "gemini-1.5-pro")) <= 1
        /\ Cardinality(Generations(r, "gemini-1.5-flash")) <= 1
        /\ \A i \in Generations(r, "gemini-1.5-pro") :
              /\ i > 2
              /\ trace[r][i - 1] = Ev("delay", "", "", 2000)
              /\ trace[r][i - 2].op = "generateContent"
              /\ trace[r][i - 2].arg = "gemini-1.5-flash"
              /\ trace[r][i - 2].res \in {"call_throws", "text_throws"}
        /\ (FlashFailed(r) /\ pc[r] \notin {"backoff", "pro"}) =>
              Generations(r, "gemini-1.5-pro") # {}
        /\ Generations(r, "gemini-1.5-pro") # {} => FlashFailed(r)

\* Flash failed at the text extraction, and Pro answered after the delay
C8_Witness ==
    \E r \in Reqs :
        /\ CallsWith(r, "generateContent", "text_throws") # {}
        /\ \E i \in Generations(r, "gemini-1.5-pro") : trace[r][i].res = "ok"
        /\ pc[r] = "done"

\* C9: a request issues at most two generation calls; when both tiers fail
\* the error of the secondary call reaches the orchestrator and the request
\* is answered with a failure carrying that error.
C9_NoThirdGeneration ==
    \A r \in Reqs :
        /\ Cardinality(Calls(r, "generateContent")) <= 2
        /\ (FlashFailed(r) /\ ProFailed(r)) =>
              LET i == Last(Generations(r, "gemini-1.5-pro")) IN
              /\ thrown[r] = Err("pro_error", trace[r][i].res)
              /\ pc[r] \in {"catch", "cleanup", "stat", "unlink", "respond", "done"}
              /\ pc[r] = "done" =>
                    /\ response[r].success = "false"
                    /\ response[r].status = 500
                    /\ response[r].error = thrown[r]

\* both tiers failed and the request was answered
C9_Witness ==
    \E r \in Reqs :
        /\ pc[r] = "done"
        /\ FlashFailed(r)
        /\ ProFailed(r)
        /\ Cardinality(Calls(r, "generateContent")) = 2

\* C10: a request issues at most 10 status gets; when the 10th still answers
\* PROCESSING no further get follows and the wait raises the
\* processing-failure error, whose message names the state PROCESSING.
C10_AtMostTenPolls ==
    \A r \in Reqs :
        /\ Cardinality(Calls(r, "get")) <= 10
        /\ attempts[r] = Cardinality({i \in Calls(r, "get") : trace[r][i].res # "throw"})
        /\ (/\ Cardinality(Calls(r, "get")) = 10
            /\ trace[r][Last(Calls(r, "get"))].res = "PROCESSING"
            /\ pc[r] # "waitForFileProcessing") =>
              /\ thrown[r] = Err("processing_not_completed", "PROCESSING")
              /\ pc[r] \in {"catch", "cleanup", "stat", "unlink", "respond", "done"}
              /\ Calls(r, "generateContent") = {}
              /\ pc[r] = "done" => response[r].error.state = "PROCESSING"

\* the 10th status get answered PROCESSING and the request was answered
C10_Witness ==
    \E r \in Reqs :
        /\ pc[r] = "done"
        /\ Cardinality(Calls(r, "get")) = 10
        /\ trace[r][Last(Calls(r, "get"))].res = "PROCESSING"

\* calls to the provider
RemoteOps == {"upload", "get", "generateContent", "delete"}

\* calls that touch the temp directory
LocalOps == {"writeFile", "readFile", "stat", "unlink"}

\* the request has issued none of the given calls
NoCalls(r, ops) == \A i \in Idx(r) : trace[r][i].op \notin ops

\* the size is a number of bytes above 2 * 1024 * 1024 * 1024
Over2GB(s) == s.mb >= 0 /\ ~AtMost2GB(s)

\* C11: a request whose size is above the 2GB cap is rejected before any
\* processing: no branch is chosen, no temp file is written, no upload, status
\* get, generation or delete is issued for it, and it never succeeds; a
\* request of exactly 2GB is not rejected by the cap check.
C11_OverCapRejectedBeforeProcessing ==
    \A r \in Reqs :
        LET s == input[r].fileSize IN
        /\ Over2GB(s) =>
              /\ strategy[r] = "none"
              /\ NoCalls(r, RemoteOps \cup {"writeFile", "readFile", "unlink", "sleep"})
              /\ TempFile(r) = "absent"
              /\ remote[r] = "none"
              /\ response[r].success # "true"
        /\ s = Size(2 * 1024, 0) => CallsWith(r, "validate", "size_over_2GB") = {}

\* a request of 2.5GB has been answered after the cap check rejected it
C11_Witness ==
    \E r \in Reqs :
        /\ pc[r] = "done"
        /\ input[r].fileSize = Size(2560, 0)
        /\ CallsWith(r, "validate", "size_over_2GB") # {}
        /\ response[r].success = "false"

\* C12: validation failures are classified by HTTP status: a request without
\* a file is answered with status 400, a request above the 2GB cap with 413.
C12_ValidationStatus ==
    \A r \in Reqs :
        pc[r] = "done" =>
            /\ CallsWith(r, "validate", "no_file_selected") # {} => response[r].status = 400
            /\ CallsWith(r, "validate", "size_over_2GB") # {} => response[r].status = 413

\* C13: when the credential is absent the handler answers 500 before any
\* processing: the try block is never entered, the body is never read, no
\* temp file is created and no call to the provider is made.
C13_MissingCredentialBeforeProcessing ==
    \A r \in Reqs :
        ~apiKey =>
            /\ NoCalls(r, RemoteOps \cup LocalOps \cup {"try", "json", "formData", "validate", "sleep", "cleanup"})
            /\ TempFile(r) = "absent"
            /\ remote[r] = "none"
            /\ tempFilePath[r] = NoPath
            /\ pc[r] \in {"idle", "POST", "done"}
            /\ pc[r] = "done" =>
                  /\ response[r].status = 500
                  /\ response[r].error.msg = "api_key_missing"

\* a request has been answered 500 for the missing credential
C13_Witness ==
    \E r \in Reqs :
        /\ ~apiKey
        /\ pc[r] = "done"
        /\ input[r] \in Bodies
        /\ response[r].status = 500

\* C14: every request that fails ends with a JSON body carrying
\* success: false, and no exception leaves the handler.
C14_FailureBodyHasSuccessFalse ==
    \A r \in Reqs :
        (pc[r] = "done" /\ response[r].success # "true") =>
            /\ response[r].success = "false"
            /\ response[r].status # -1
            /\ escaped[r] = NoError

\* the upload call of the request threw, or returned a file without a name
UploadFailed(r) ==
    \/ CallsWith(r, "upload", "throw") # {}
    \/ Calls(r, "upload") # {} /\ ~uploadedFile[r].name

\* C15: when the upload call throws or returns a file without a name, the
\* request never polls and never generates, it ends with a failure response,
\* and cleanup still runs the local delete: the stat is issued, the unlink
\* follows when the stat finds the file, and the temp file is gone when both
\* succeed.
C15_UploadFailureStillCleansUp ==
    \A r \in Reqs :
        UploadFailed(r) =>
            /\ NoCalls(r, {"get", "generateContent"})
            /\ response[r].success # "true"
            /\ pc[r] = "done" =>
                  /\ response[r].success = "false"
                  /\ response[r].error.msg \in {"upload_failed", "uploaded_name_missing"}
                  /\ Cardinality(Calls(r, "stat")) = 1
                  /\ CallsWith(r, "stat", "found") # {} => Calls(r, "unlink") # {}
                  /\ CleanupSucceeded(r) => TempFile(r) = "absent"

\* an upload returned a file without a name, the request failed, and its
\* temp file has been unlinked
C15_Witness ==
    \E r \in Reqs :
        /\ pc[r] = "done"
        /\ Calls(r, "upload") # {}
        /\ CallsWith(r, "upload", "throw") = {}
        /\ ~uploadedFile[r].name
        /\ response[r].error.msg = "uploaded_name_missing"
        /\ CallsWith(r, "unlink", "ok") # {}
        /\ TempFile(r) = "absent"

\* the upload returned a file with a name, and the last state observed for it
\* (by the upload or by a status get) is ACTIVE
ReachedActive(r) ==
    /\ Observed(r) # {}
    /\ trace[r][Last(Observed(r))].res = "ACTIVE"
    /\ uploadedFile[r].name

\* C16: on every staged execution whose uploaded file reached ACTIVE, whether
\* generation then succeeds or fails, cleanup issues exactly one remote
\* delete, after the last generation call and before the response is
\* returned; no request ever issues a second delete.
C16_OneRemoteDeleteAfterGeneration ==
    \A r \in Reqs :
        /\ Cardinality(Calls(r, "delete")) <= 1
        /\ \A d \in Calls(r, "delete") :
              /\ ReachedActive(r)
              /\ \A g \in Calls(r, "generateContent") \cup Calls(r, "return") : g < d
              /\ \A a \in Calls(r, "respond") : d < a
        /\ (pc[r] = "done" /\ ReachedActive(r)) =>
              /\ Cardinality(Calls(r, "delete")) = 1
              /\ CallsWith(r, "delete", "ok") # {} => remote[r] = "deleted"

\* a staged file reached ACTIVE, both tiers failed, and the remote delete
\* was issued before the failure response
C16_Witness ==
    \E r \in Reqs :
        /\ pc[r] = "done"
        /\ ReachedActive(r)
        /\ FlashFailed(r) /\ ProFailed(r)
        /\ response[r].success = "false"
        /\ CallsWith(r, "delete", "ok") # {}
        /\ remote[r] = "deleted"

\* positions of the generation calls that returned a text
Answered(r) == CallsWith(r, "generateContent", "ok")

\* C17: the analysis of a successful response is exactly the text returned
\* by the tier that succeeded: the text of the gemini-1.5-flash call when it
\* succeeded, otherwise the text of the gemini-1.5-pro call; a request gets
\* at most one text.
C17_AnalysisIsTheTextReturned ==
    \A r \in Reqs :
        /\ Cardinality(Answered(r)) <= 1
        /\ response[r].success = "true" =>
              /\ Answered(r) # {}
              /\ LET g == trace[r][Last(Answered(r))] IN
                    /\ response[r].analysis = g.n
                    /\ g.n \in Texts
                    /\ g.arg = IF FlashFailed(r) THEN "gemini-1.5-pro"
                               ELSE "gemini-1.5-flash"

\* the first tier failed, the second answered the second text, and the
\* response carries that text
C17_Witness ==
    \E r \in Reqs :
        /\ pc[r] = "done"
        /\ response[r].success = "true"
        /\ FlashFailed(r)
        /\ \E i \in Generations(r, "gemini-1.5-pro") :
              trace[r][i].res = "ok" /\ trace[r][i].n = 2
        /\ response[r].analysis = 2

\* C19: no operation of a request outlives it: the return of the response is
\* the last entry of the request's history, it happens once, and it is the
\* step that ends the request; before it no response has been handed over.
C19_NothingAfterTheResponse ==
    \A r \in Reqs :
        /\ Cardinality(Calls(r, "respond")) <= 1
        /\ \A a \in Calls(r, "respond") : a = Len(trace[r]) /\ pc[r] = "done"
        /\ pc[r] = "done" => Calls(r, "respond") # {}
        /\ pc[r] # "done" => response[r] = NoResponse

\* a staged request has polled, slept, generated, deleted remotely and
\* locally, and has been answered
C19_Witness ==
    \E r \in Reqs :
        /\ pc[r] = "done"
        /\ Calls(r, "get") # {}
        /\ Calls(r, "delay") # {}
        /\ Calls(r, "generateContent") # {}
        /\ Calls(r, "delete") # {}
        /\ Calls(r, "unlink") # {}
        /\ trace[r][Len(trace[r])].op = "respond"

\* the locals of one invocation of POST
Locals(r) ==
    <<input[r], strategy[r], tempFilePath[r], uploadedFile[r],
      uploadedFileForDeletion[r], currentFile[r], attempts[r], parts[r],
      analysisResult[r], thrown[r], pending[r], escaped[r], response[r],
      trace[r]>>

\* each request in flight has a temp path of its own, and from its write to
\* its unlink the file at that path is the one it wrote
C18_OwnTempFile ==
    \A r \in Reqs :
        /\ \A q \in Reqs \ {r} :
              tempFilePath[r] # NoPath => tempFilePath[r] # tempFilePath[q]
        /\ tempFilePath[r] # NoPath => tempFilePath[r] = TempPath(RandomUUID(r), FileName)
        /\ (CallsWith(r, "writeFile", "ok") # {} /\ CallsWith(r, "unlink", "ok") = {})
              => TempFile(r) = "complete"
        /\ pc[r] = "done" =>
              response[r] = IF CallsWith(r, "return", "success") # {}
                            THEN Response(200, "true", trace[r][Last(Answered(r))].n,
                                          NoError, ResponseMethod(input[r].fileSize))
                            ELSE Response(500, "false", NoText, thrown[r], "")

\* a step leaves alone every request that did not take it: its locals, its
\* temp file and its staged file
C18_OthersUntouched ==
    \A q \in Reqs :
        pc'[q] = pc[q] =>
            /\ Locals(q)' = Locals(q)
            /\ TempFile(q)' = TempFile(q)
            /\ remote'[q] = remote[q]

\* C18: for any interleaving of two concurrent requests, each request has
\* its own temp path (named by its own random identifier) and its own staged
\* file; no step of one request changes another request's temp file, staged
\* file or locals, the file a request wrote stays as written until that
\* request unlinks it, and each response is the one the request's own calls
\* determine.
C18_ConcurrentRequestsIndependent ==
    []C18_OwnTempFile /\ [][C18_OthersUntouched]_vars

\* two requests are in flight together: each has saved its temp file, both
\* files are on disk at once under different paths, and one has been uploaded
C18_Witness ==
    /\ \A r \in Reqs :
          /\ pc[r] \notin {"idle", "done"}
          /\ CallsWith(r, "writeFile", "ok") # {}
          /\ Calls(r, "unlink") = {}
          /\ FileAt(tempFilePath[r]) = "complete"
    /\ tempFilePath["r1"] # tempFilePath["r2"]
    /\ \E r \in Reqs : CallsWith(r, "upload", "ACTIVE") # {}

\* no error leaves cleanup; an unlink is issued only right after a stat that
\* found the file; once an unlink has succeeded the file is absent and no
\* later run of cleanup issues another unlink
C20_DeleteOnlyWhatIsThere ==
    \A r \in Reqs :
        /\ escaped[r] = NoError
        /\ \A u \in Calls(r, "unlink") :
              /\ u > 1
              /\ trace[r][u - 1].op = "stat"
              /\ trace[r][u - 1].res = "found"
        /\ \A u \in CallsWith(r, "unlink", "ok") :
              /\ FileAt(tempFilePath[r]) = "absent"
              /\ \A v \in Calls(r, "unlink") : v <= u

\* while the temp file of a cleanup is absent (never created, or already
\* deleted) no step of that cleanup changes the file system or reaches the
\* unlink
C20_AbsentStaysUntouched ==
    \A r \in Reqs :
        (pc'[r] # pc[r] /\ FileAt(tempFilePath[r]) = "absent") =>
            /\ fs' = fs
            /\ pc'[r] # "unlink"
            /\ Calls(r, "unlink")' = Calls(r, "unlink")

\* C20: the local delete of cleanup is idempotent and tolerant of absence:
\* run with the temp file absent (never created, or deleted by an earlier
\* run) it raises no error, issues no unlink and leaves the file system
\* unchanged; a second run after one that deleted the file changes nothing.
C20_LocalDeleteIdempotent ==
    []C20_DeleteOnlyWhatIsThere /\ [][C20_AbsentStaysUntouched]_vars

\* cleanup ran twice: the first run unlinked the file, the second found it
\* absent, issued no unlink and raised nothing
C20_Witness ==
    \E r \in Reqs :
        /\ CleanupRuns(r) = 2
        /\ Cardinality(Calls(r, "unlink")) = 1
        /\ CallsWith(r, "unlink", "ok") # {}
        /\ \E s \in CallsWith(r, "stat", "false") :
              \A u \in Calls(r, "unlink") : u < s
        /\ FileAt(tempFilePath[r]) = "absent"
        /\ escaped[r] = NoError

\* the loops of a request are bounded: at most ten status gets, at most two
\* generation calls, one attempt per model
C21_LoopsBounded ==
    \A r \in Reqs :
        /\ Cardinality(Calls(r, "get")) <= PROCESSING_MAX_ATTEMPTS
        /\ attempts[r] <= PROCESSING_MAX_ATTEMPTS
        /\ Cardinality(Generations(r, "gemini-1.5-flash")) <= 1
        /\ Cardinality(Generations(r, "gemini-1.5-pro")) <= 1

\* C21: provided every awaited call returns or throws, every request
\* eventually returns a response: the polling loop makes at most ten
\* iterations and the generation fallback at most two calls, and every
\* request received is eventually answered and stays answered.
C21_EveryRequestReturns ==
    /\ []C21_LoopsBounded
    /\ \A r \in Reqs : (pc[r] = "POST") ~> [](pc[r] = "done" /\ response[r] # NoResponse)

\* the longest execution has ended: ten status gets, the last one ACTIVE,
\* both generation calls failed, cleanup ran, the response was returned
C21_Witness ==
    \E r \in Reqs :
        /\ pc[r] = "done"
        /\ Cardinality(Calls(r, "get")) = PROCESSING_MAX_ATTEMPTS
        /\ CallsWith(r, "get", "ACTIVE") # {}
        /\ FlashFailed(r) /\ ProFailed(r)
        /\ Calls(r, "delete") # {}
        /\ Calls(r, "unlink") # {}

\* the statuses a failure response may carry
FailureStatuses == {400, 413, 500, 504}

\* C22: on both endpoints every failure response carries a status among 400,
\* 413, 500 and 504 and no analysis, and every success response carries
\* status 200, success: true and the text the generation call returned.
C22_FailureStatusesAndSuccessBody ==
    \A r \in Reqs :
        pc[r] = "done" =>
            IF response[r].success = "true"
            THEN /\ response[r].status = 200
                 /\ Answered(r) # {}
                 /\ response[r].analysis = trace[r][Last(Answered(r))].n
                 /\ response[r].analysis \in Texts
            ELSE /\ response[r].status \in FailureStatuses
                 /\ response[r].analysis = NoText
                 /\ response[r].error # NoError

\* /api/analyze has answered 504 for a generation call that threw a timeout
C22_Witness ==
    \E r \in Reqs :
        /\ pc[r] = "done"
        /\ input[r].kind = "analyze"
        /\ Calls(r, "generateContent") # {}
        /\ thrown[r] = Err("timeout", "Error")
        /\ response[r].status = 504

\* the video encoded by a videoBase64 of this length is at most 50MB
\* (length * 3 / 4 <= 50 * 1024 * 1024)
VideoAtMost50MB(len) == IsNumber(len) /\ SizeLE(Times(len, 3), Times(Size(50, 0), 4))

\* C23: /api/analyze accepts videos up to the documented maximum of 50MB: a
\* request whose video is at most 50MB is rejected by neither size check.
C23_AcceptsUpTo50MB ==
    \A r \in Reqs :
        (input[r].kind = "analyze" /\ VideoAtMost50MB(input[r].fileSize)) =>
            /\ CallsWith(r, "check", "estimatedSize") = {}
            /\ CallsWith(r, "check", "base64Size") = {}
            /\ pc[r] = "done" => response[r].status # 413 \/ Calls(r, "generateContent") # {}

\* positions at which a state other than PROCESSING and ACTIVE was observed
Terminal(r) ==
    {i \in Observed(r) : trace[r][i].res \notin {"PROCESSING", "ACTIVE", "throw"}}

\* C24: when the upload (of a file with a name) or a status get reports a
\* state that is neither PROCESSING nor ACTIVE, polling stops at once: no
\* status get, no sleep and no generation call follows, and the request
\* fails with the processing error that names that state.
C24_TerminalStateStopsPolling ==
    \A r \in Reqs :
        ~UploadFailed(r) =>
            \A i \in Terminal(r) :
                /\ \A j \in Calls(r, "get") \cup Calls(r, "delay")
                               \cup Calls(r, "generateContent") : j <= i
                /\ response[r].success # "true"
                /\ pc[r] = "done" =>
                      /\ response[r].success = "false"
                      /\ response[r].error =
                            Err("processing_not_completed", trace[r][i].res)

\* the third status get answered FAILED after two PROCESSING, no fourth get
\* was issued, and the request failed naming FAILED
C24_Witness ==
    \E r \in Reqs :
        /\ pc[r] = "done"
        /\ Cardinality(Calls(r, "get")) = 3
        /\ Cardinality(CallsWith(r, "get", "PROCESSING")) = 2
        /\ CallsWith(r, "get", "FAILED") # {}
        /\ response[r].error = Err("processing_not_completed", "FAILED")

\* positions of the sleeps of the polling loop
PollSleeps(r) == {i \in Calls(r, "delay") : trace[r][i].n = PROCESSING_DELAY}

\* the observation of the staged file's state that precedes position i
Before(r, i) == {j \in Observed(r) : j < i}

\* C25: a status get is issued only while the last observed state is
\* PROCESSING; once ACTIVE is observed (for a file with a name) no further
\* get or poll sleep follows and the wait returns without an error; when the
\* upload itself returns ACTIVE there is no get and no poll sleep at all.
C25_PollOnlyWhileProcessing ==
    \A r \in Reqs :
        /\ \A g \in Calls(r, "get") \cup PollSleeps(r) :
              /\ Before(r, g) # {}
              /\ trace[r][Last(Before(r, g))].res = "PROCESSING"
        /\ (CallsWith(r, "upload", "ACTIVE") # {}) =>
              Calls(r, "get") = {} /\ PollSleeps(r) = {}
        /\ ReachedActive(r) =>
              /\ thrown[r].msg \notin {"processing_not_completed", "name_lost",
                                       "get_failed", "upload_failed",
                                       "uploaded_name_missing"}
              /\ \/ pc[r] \in {"waitForFileProcessing", "processWithFilesAPI"}
                 \/ uploadedFileForDeletion[r] = "uploadedFile"

\* the state was PROCESSING twice, the third observation was ACTIVE, and the
\* wait has returned after exactly two status gets
C25_Witness ==
    \E r \in Reqs :
        /\ CallsWith(r, "upload", "PROCESSING") # {}
        /\ Cardinality(CallsWith(r, "get", "PROCESSING")) = 1
        /\ Cardinality(Calls(r, "get")) = 2
        /\ ReachedActive(r)
        /\ uploadedFileForDeletion[r] = "uploadedFile"
        /\ pc[r] = "done"

\* every status get comes right after a sleep of the poll interval
SleepBeforeEveryGet(r) ==
    \A g \in Calls(r, "get") :
        /\ g > 1
        /\ trace[r][g - 1] = Ev("delay", "", "", PROCESSING_DELAY)

\* C26 as stated: every status get is immediately preceded by one sleep of
\* the poll interval, and a request that has ended slept as many times as
\* it issued status gets.
C26_SleepsEqualGets ==
    \A r \in Reqs :
        /\ SleepBeforeEveryGet(r)
        /\ pc[r] = "done" => Cardinality(PollSleeps(r)) = Cardinality(Calls(r, "get"))

\* C26, amended: every status get is immediately preceded by one sleep of
\* the poll interval, so no two status gets lack a sleep between them; the
\* sleeps of an ended request number as many as its status gets, or one more
\* when the iteration that slept then found the polled file without a name
\* and threw before its get.
C26_SleepBeforeEachGet ==
    \A r \in Reqs :
        /\ SleepBeforeEveryGet(r)
        /\ \A i \in PollSleeps(r) : i > 1 => trace[r][i - 1].op # "delay"
        /\ pc[r] = "done" =>
              Cardinality(PollSleeps(r)) =
                  Cardinality(Calls(r, "get"))
                      + (IF thrown[r].msg = "name_lost" THEN 1 ELSE 0)

\* three status gets were issued, each right after its own sleep
C26_Witness ==
    \E r \in Reqs :
        /\ pc[r] = "done"
        /\ Cardinality(Calls(r, "get")) = 3
        /\ Cardinality(PollSleeps(r)) = 3
        /\ SleepBeforeEveryGet(r)

\* the stage an entry of the history belongs to: 1 validation, 2 temp-file
\* save, 3 read-back or upload, 4 polling, 5 generation, 6 response
\* assembly, 7 cleanup, 8 the return of the response
Stage(ev) ==
    CASE ev.op \in {"try", "json", "formData", "validate"} -> 1
      [] ev.op = "writeFile" -> 2
      [] ev.op \in {"readFile", "upload"} -> 3
      [] ev.op = "get" \/ (ev.op = "delay" /\ ev.n = PROCESSING_DELAY) -> 4
      [] ev.op = "generateContent" \/ (ev.op = "delay" /\ ev.n = FALLBACK_DELAY) -> 5
      [] ev.op = "return" -> 6
      [] ev.op \in {"cleanup", "delete", "stat", "unlink"} -> 7
      [] OTHER -> 8

\* the history of the request never goes back to an earlier stage
StagesInOrder(r) ==
    \A i \in Idx(r) : i < Len(trace[r]) => Stage(trace[r][i]) <= Stage(trace[r][i + 1])

\* no write and no remote call before a successful validation, no status
\* get before an upload that returned a name, no generation call before the
\* routing decision
NothingBeforeItsStep(r) ==
    /\ \A i \in Idx(r) :
          trace[r][i].op \in RemoteOps \cup {"writeFile", "readFile"} =>
              \E v \in CallsWith(r, "validate", "") : v < i
    /\ \A g \in Calls(r, "get") :
          /\ uploadedFile[r].name
          /\ \E u \in Calls(r, "upload") : u < g /\ trace[r][u].res # "throw"
    /\ Calls(r, "generateContent") # {} => strategy[r] # "none"

C28_LocalDeleteAfterFailedRemoteDelete ==
    \A r \in Reqs :
        (pc[r] = "done" /\ CallsWith(r, "delete", "throw") # {}) =>
            /\ Calls(r, "stat") # {}
            /\ (CallsWith(r, "stat", "false") = {} /\ CallsWith(r, "unlink", "throw") = {})
                  => TempFile(r) = "absent"

\* the save of the request threw: arrayBuffer() failed, or writeFile() did
SaveFailed(r) ==
    \/ thrown[r].msg = "io_error" /\ Calls(r, "writeFile") = {}
    \/ \E w \in Calls(r, "writeFile") : trace[r][w].res # "ok"

\* C29: the temp path is used by a later stage (read back for Base64, or
\* uploaded) only after the write of the temp file completed, and what is
\* read or uploaded is the complete file; when the save fails the request
\* fails without any read, upload, status get or generation call.
C29_PathUsedOnlyAfterCompleteWrite ==
    \A r \in Reqs :
        /\ \A i \in Calls(r, "readFile") \cup Calls(r, "upload") :
              /\ \E w \in CallsWith(r, "writeFile", "ok") : w < i
              /\ tempFilePath[r] = TempPath(RandomUUID(r), FileName)
        /\ pc[r] \in {"processWithBase64", "uploadFileWithFilesAPI"} =>
              FileAt(tempFilePath[r]) = "complete"
        /\ SaveFailed(r) =>
              /\ NoCalls(r, {"readFile", "upload", "get", "generateContent"})
              /\ response[r].success # "true"
              /\ pc[r] = "done" => response[r].success = "false"

\* a write left a partial file and threw; the request failed without
\* reading, uploading, polling or generating
C29_Witness ==
    \E r \in Reqs :
        /\ pc[r] = "done"
        /\ CallsWith(r, "writeFile", "throws_partial") # {}
        /\ response[r].error = Err("io_error", "")
        /\ NoCalls(r, {"readFile", "upload", "get", "generateContent"})

\* C30: when the write of the temp file fails after the path was chosen,
\* possibly leaving a partial file, cleanup still attempts to delete that
\* path, so no partial temp file remains when the response is returned
\* (provided the delete itself succeeds).
C30_PartialFileReleased ==
    \A r \in Reqs :
        (pc[r] = "done" /\ \E w \in Calls(r, "writeFile") : trace[r][w].res # "ok") =>
            /\ Calls(r, "stat") # {}
            /\ CleanupSucceeded(r) => TempFile(r) = "absent"

\* C31: in every success response the reported method is 'Base64' exactly
\* when the request was processed on the inline path (inline data, no
\* upload) and 'Files API' exactly when it was processed on the staged path
\* (upload, file reference).
C31_MethodNamesThePathTaken ==
    \A r \in Reqs :
        response[r].success = "true" =>
            LET onInline == strategy[r] = "inline" /\ parts[r] = "inlineData"
                              /\ Calls(r, "upload") = {}
                onStaged == strategy[r] = "staged" /\ parts[r] = "fileData"
                              /\ Calls(r, "upload") # {} /\ ReachedActive(r)
            IN  /\ response[r].method \in {"Base64", "Files API"}
                /\ response[r].method = "Base64" <=> onInline
                /\ response[r].method = "Files API" <=> onStaged

\* a request of 20MB + 1 byte succeeded on the staged path and reports
\* 'Files API'
C31_Witness ==
    \E r \in Reqs :
        /\ pc[r] = "done"
        /\ input[r].fileSize = Size(20, 1)
        /\ response[r].success = "true"
        /\ response[r].method = "Files API"
        /\ Calls(r, "upload") # {}

\* length * 3 / 4 is above 30 * 1024 * 1024
EstimateAbove30MB(len) == IsNumber(len) /\ ~SizeLE(Times(len, 3), Size(4 * 30, 0))

C33_InlinePathStagesNothing ==
    \A r \in Reqs :
        strategy[r] = "inline" =>
            /\ NoCalls(r, {"upload", "get", "delete"})
            /\ PollSleeps(r) = {}
            /\ remote[r] = "none"
            /\ uploadedFile[r] = NoFile
            /\ uploadedFileForDeletion[r] = "null"
            /\ \A b \in CallsWith(r, "cleanup", "begin") :
                  \A i \in Idx(r) : i > b =>
                      trace[r][i].op \in {"stat", "unlink", "cleanup", "respond"}

\* an inline request succeeded and its cleanup unlinked the temp file
C33_Witness ==
    \E r \in Reqs :
        /\ pc[r] = "done"
        /\ strategy[r] = "inline"
        /\ response[r].success = "true"
        /\ CallsWith(r, "unlink", "ok") # {}
        /\ TempFile(r) = "absent"

\* C34: the staged file and the temp file are never deleted while still
\* needed: every remote delete comes after every generation call of the
\* request, every unlink after the read-back or the upload of the temp
\* file, and while a generation call or a use of the temp file lies ahead
\* the staged file is not deleted and the temp file is complete.
C34_NoDeleteWhileNeeded ==
    \A r \in Reqs :
        /\ \A d \in Calls(r, "delete") :
              \A g \in Calls(r, "generateContent") \cup Calls(r, "get")
                           \cup Calls(r, "upload") : g < d
        /\ \A u \in Calls(r, "unlink") \cup Calls(r, "stat") :
              \A i \in Calls(r, "readFile") \cup Calls(r, "upload")
                           \cup Calls(r, "writeFile") : i < u
        /\ pc[r] \in {"waitForFileProcessing", "poll", "processWithFilesAPI",
                      "flash", "backoff", "pro"} =>
              /\ remote[r] # "deleted"
              /\ Calls(r, "delete") = {}
        /\ pc[r] \in {"processWithBase64", "uploadFileWithFilesAPI"} =>
              /\ FileAt(tempFilePath[r]) = "complete"
              /\ Calls(r, "unlink") = {}

\* a staged request generated with the file reference on both tiers, and
\* only then deleted the staged file and unlinked the temp file
C34_Witness ==
    \E r \in Reqs :
        /\ pc[r] = "done"
        /\ parts[r] = "fileData"
        /\ Cardinality(Calls(r, "generateContent")) = 2
        /\ CallsWith(r, "delete", "ok") # {}
        /\ CallsWith(r, "unlink", "ok") # {}

\* C35: a request performs at most one temp-file write, one upload, one
\* remote delete and one unlink, and a remote delete is issued only for the
\* file object its own upload returned with a name, recorded by POST after
\* the wait.
C35_AtMostOneOfEach ==
    \A r \in Reqs :
        /\ Cardinality(Calls(r, "writeFile")) <= 1
        /\ Cardinality(Calls(r, "upload")) <= 1
        /\ Cardinality(Calls(r, "delete")) <= 1
        /\ Cardinality(Calls(r, "unlink")) <= 1
        /\ \A d \in Calls(r, "delete") :
              /\ \E u \in Calls(r, "upload") : u < d /\ trace[r][u].res # "throw"
              /\ uploadedFile[r].name
              /\ uploadedFileForDeletion[r] = "uploadedFile"
              /\ remote[r] \in {"staged", "deleted"}

\* one write, one upload, one remote delete and one unlink, all done
C35_Witness ==
    \E r \in Reqs :
        /\ pc[r] = "done"
        /\ Cardinality(Calls(r, "writeFile")) = 1
        /\ Cardinality(Calls(r, "upload")) = 1
        /\ Cardinality(CallsWith(r, "delete", "ok")) = 1
        /\ Cardinality(CallsWith(r, "unlink", "ok")) = 1
        /\ response[r].success = "false"

\* C36: a JSON request to /api/analyze-file never creates a temp file and
\* never uploads. With method 'base64', a declared size of at most 20MB and
\* base64Data present, generation runs on the supplied inline data, with no
\* file written or read in between; with a declared size above 20MB or
\* without base64Data the request fails without any remote call; with
\* another method it is rejected by the validation.
C36_JsonRequestsTouchNoFile ==
    \A r \in Reqs :
        input[r].kind = "json" =>
            LET in == input[r]
                wellFormed == in.bodyOk /\ in.method = "base64"
                preEncoded == wellFormed /\ AtMost20MB(in.fileSize)
                                  /\ in.base64Data = "data"
            IN  /\ NoCalls(r, LocalOps \cup {"upload", "get", "delete"})
                /\ TempFile(r) = "absent"
                /\ tempFilePath[r] = NoPath
                /\ Calls(r, "generateContent") # {} =>
                      preEncoded /\ strategy[r] = "inline" /\ parts[r] = "inlineData"
                /\ (preEncoded /\ apiKey /\ pc[r] = "done") =>
                      Calls(r, "generateContent") # {}
                /\ (wellFormed /\ ~preEncoded) =>
                      /\ NoCalls(r, RemoteOps)
                      /\ response[r].success # "true"
                /\ (in.bodyOk /\ in.method # "base64") =>
                      /\ strategy[r] = "none"
                      /\ \A v \in Calls(r, "validate") :
                            trace[r][v].res = "invalid_request_format"
                      /\ response[r].success # "true"

\* a pre-encoded request of exactly 20MB succeeded on its inline data
C36_Witness ==
    \E r \in Reqs :
        /\ pc[r] = "done"
        /\ input[r].kind = "json"
        /\ input[r].fileSize = Size(20, 0)
        /\ parts[r] = "inlineData"
        /\ response[r].success = "true"
        /\ response[r].method = "Base64"

\* the generation call of the request threw
GenerationThrew(r) ==
    \E g \in Calls(r, "generateContent") : trace[r][g].res # "ok"

\* C37: /api/analyze classifies an error thrown by the generation call by
\* its message with a fixed priority: '413' or 'too large' yields 413 even
\* when the message also contains 'timeout' or '504'; otherwise 'timeout'
\* or '504' yields 504; every other error, and every thrown value that is
\* no Error, yields 500. Exactly one response is returned for the error.
C37_ErrorClassifiedByPriority ==
    \A r \in Reqs :
        (input[r].kind = "analyze" /\ GenerationThrew(r) /\ pc[r] = "done") =>
            LET e == thrown[r]
                isError == e.state = "Error"
                tooLarge == Includes(e.msg, "413") \/ Includes(e.msg, "too large")
                timeout == Includes(e.msg, "timeout") \/ Includes(e.msg, "504")
            IN  /\ (isError /\ tooLarge) => response[r].status = 413
                /\ (isError /\ ~tooLarge /\ timeout) => response[r].status = 504
                /\ (~isError \/ (~tooLarge /\ ~timeout)) => response[r].status = 500
                /\ Cardinality(Calls(r, "respond")) = 1
                /\ response[r].success # "true"

\* the generation call threw an Error whose message contains both '413' and
\* 'timeout', and the response is 413
C37_Witness ==
    \E r \in Reqs :
        /\ pc[r] = "done"
        /\ GenerationThrew(r)
        /\ thrown[r] = Err("413 timeout", "Error")
        /\ response[r].status = 413

\* C38: the second size check of /api/analyze (length > 40MB) never rejects
\* a request: every length whose estimate length * 3 / 4 is at most 30MB is
\* itself at most 40MB, so a payload that passes the first check passes the
\* second.
C38_SecondSizeCheckNeverRejects ==
    \A r \in Reqs :
        /\ CallsWith(r, "check", "base64Size") = {}
        /\ response[r].error.msg # "base64_over_40MB"
        /\ input[r].kind = "analyze" =>
              LET len == input[r].fileSize IN
              ~EstimateExceeds(len) => ~Base64Exceeds(len)

\* a videoBase64 of exactly 40MB (estimate exactly 30MB) has passed both
\* checks and reached the generation call
C38_Witness ==
    \E r \in Reqs :
        /\ input[r].kind = "analyze"
        /\ input[r].fileSize = Size(40, 0)
        /\ CallsWith(r, "check", "") # {}
        /\ Calls(r, "generateContent") # {}

=============================================================================
